---------------------------- MODULE Spec2Model ----------------------------
(***************************************************************************)
(* Cluster-based permutation test (emanuele/cbpktst): the space-time       *)
(* proximity matrix of proximity.py and the mass-univariate test of        *)
(* mass_univariate.py.                                                     *)
(*                                                                         *)
(* Conventions.  Indices are 0-based as in the Python source, except the   *)
(* positions of a list, which are those of a sequence (from 1).  A boolean *)
(* sparse matrix is the set of its true entries <<row, column>>.  Lengths  *)
(* are integers (half units: 3 stands for the 1.5 of line 58), so          *)
(* "Euclidean distance <= threshold" is decided on the squares             *)
(* (threshold >= 0 and d^2 <= threshold^2), which is exact.  p-values and  *)
(* p_value_threshold are in percent.  A call that raises ends the program  *)
(* (pc = "error"); the Python 2 and NumPy of the program's time are        *)
(* assumed: "/" on integers is floor division and a float index is         *)
(* truncated.  cbpktst.compute_clusters_statistic is not among the source  *)
(* files and follows the specification's section 4.4; scipy's ttest_ind    *)
(* and joblib's Parallel are libraries, modelled by their contracts.       *)
(***************************************************************************)
EXTENDS Integers, Sequences, FiniteSets

VARIABLES
    \* ---- proximity.py: one call of
    \* compute_sparse_boolean_proximity_matrix_space_time
    ppc,                     \* position in the call
    coordinates,             \* one point <<x, y>> per unit
    n_timesteps,
    threshold_space,
    threshold_timesteps,
    space_sparse,
    proximity_matrix_space,  \* true entries of the spatial matrix
    proximity_matrix,        \* true entries of the space-time matrix
    k,                       \* loop variable of the setdiag loop
    \* ---- mass_univariate.py: one call of compute_ttest_clusters, and the
    \* loop of lines 118-122 over the clusters it returned
    cpc,                     \* position in the call and in the loop
    t,                       \* statistic per (unit, timestep)
    p,                       \* p-value per (unit, timestep), in percent
    p_value_threshold,       \* in percent
    t_flat,
    idx,                     \* surviving grid-node indices, ascending
    clusters,                \* list of clusters
    cluster_statistic,       \* list of their statistics
    clusters_over_threshold, \* ids of the clusters reported
    todo,                    \* members of those clusters not yet visited
    unit_ts,                 \* loop variables of lines 119-121
    unit_s,
    timestep,
    thresholded_t_map,
    \* ---- mass_univariate.py: the main program
    pc,                      \* position in the program
    XX,                      \* the samples, XX[sample][unit][timestep]
    seed,                    \* the seed of line 42
    parallel,
    iterations,
    n_jobs,                  \* worker processes joblib runs the batches on
    batch_size,
    loop_i,                  \* i, the loop variable of the sequential loop
    batches,                 \* per batch of line 100: status, labels, values
    worker_rng,              \* per worker: the state of its np.random
    max_cluster_statistic,   \* the null distribution
    cluster_statistic_threshold

proxVars == <<ppc, coordinates, n_timesteps, threshold_space,
              threshold_timesteps, space_sparse, proximity_matrix_space,
              proximity_matrix, k>>

clusVars == <<cpc, t, p, p_value_threshold, t_flat, idx, clusters,
              cluster_statistic, clusters_over_threshold, todo, unit_ts,
              unit_s, timestep, thresholded_t_map>>

runVars == <<pc, XX, seed, parallel, iterations, n_jobs, batch_size, loop_i,
             batches, worker_rng, max_cluster_statistic,
             cluster_statistic_threshold>>

vars == <<proxVars, clusVars, runVars>>

-----------------------------------------------------------------------------
(* Bounds of the model *)

MaxUnits == 3
MaxTimesteps == 3
MaxThresholdTimesteps == 3
MaxThresholdSpace == 3
\* The grids compute_ttest_clusters is run on.
GridUnits == 2
GridTimesteps == 2

\* Points units may sit on.  With lengths in half units these are the
\* coordinates (0,0), (0,1), (5,5) and threshold 3 is the radius 1.5.
Points == {<<0, 0>>, <<0, 2>>, <<10, 10>>}

CoordinateSets == UNION {[1..n -> Points] : n \in 1..MaxUnits}

-----------------------------------------------------------------------------
(* General helpers *)

Abs(x) == IF x < 0 THEN -x ELSE x

Max(a, b) == IF a >= b THEN a ELSE b

Range(f) == {f[i] : i \in DOMAIN f}

\* Python 2 integer division "/" and "//" on ints: floor division.
FloorDiv(a, b) ==
    IF b > 0
    THEN (IF a >= 0 THEN a \div b ELSE -((-a + b - 1) \div b))
    ELSE (IF a <= 0 THEN (-a) \div (-b) ELSE -((a + (-b) - 1) \div (-b)))

-----------------------------------------------------------------------------
(* proximity.py *)

SqDist(a, b) == (a[1] - b[1]) * (a[1] - b[1]) + (a[2] - b[2]) * (a[2] - b[2])

\* dm[i, j] <= threshold, for dm the Euclidean distance.
WithinRadius(a, b, threshold) ==
    threshold >= 0 /\ SqDist(a, b) <= threshold * threshold

\* Dense strategy: (pairwise_distances(coordinates) <= threshold).astype(int),
\* a 0/1 matrix indexed from 0.
compute_boolean_proximity_matrix(coords, threshold) ==
    [i \in 0..(Len(coords) - 1) |->
        [j \in 0..(Len(coords) - 1) |->
            IF WithinRadius(coords[i + 1], coords[j + 1], threshold)
            THEN 1 ELSE 0]]

\* KDTree.query_radius(coordinates, r): per unit, the units within r.
query_radius(coords, r) ==
    [i \in 0..(Len(coords) - 1) |->
        {j \in 0..(Len(coords) - 1) :
            WithinRadius(coords[i + 1], coords[j + 1], r)}]

\* Sparse strategy: a COO matrix from row = i repeated len(neighbors[i])
\* times and column = the neighbours, every datum True.
compute_sparse_boolean_proximity_matrix(coords, threshold) ==
    LET neighbors == query_radius(coords, threshold)
    IN UNION {{<<i, j>> : j \in neighbors[i]} : i \in DOMAIN neighbors}

\* x, y = m.nonzero() of a dense 0/1 matrix, as the set of pairs.
Nonzero(m) ==
    {<<i, j>> \in (DOMAIN m) \X (DOMAIN m) : m[i][j] # 0}

\* Lines 83-86: the spatial matrix by the chosen strategy, as true entries.
SpaceMatrix(coords, threshold, sparse) ==
    IF sparse
    THEN compute_sparse_boolean_proximity_matrix(coords, threshold)
    ELSE Nonzero(compute_boolean_proximity_matrix(coords, threshold))

\* Lines 90-95: the spatial block repeated on the diagonal, once per
\* timestep (t in the source, step here): i = x + t * n_units,
\* j = y + t * n_units.
TileBlocks(pms, n_units, nt) ==
    {<<e[1] + step * n_units, e[2] + step * n_units>> :
        e \in pms, step \in 0..(nt - 1)}

\* Whether np.ones(n_units * (nt - kk)) followed by setdiag(.., n_units*kk)
\* raises: np.ones of a negative length does, and setdiag does when the
\* offset is not smaller than the matrix dimension.
SetDiagRaises(n_units, nt, kk) ==
    \/ n_units * (nt - kk) < 0
    \/ n_units * kk >= n_units * nt

\* Lines 98-99: both offset diagonals +-(n_units * kk) set to True, over the
\* n_units * (nt - kk) entries given.
SetDiagBands(pm, n_units, nt, kk) ==
    pm \cup {<<i, i + n_units * kk>> : i \in 0..(n_units * (nt - kk) - 1)}
       \cup {<<i + n_units * kk, i>> : i \in 0..(n_units * (nt - kk) - 1)}

\* Lines 97-99: the loop for k in range(1, threshold_timesteps + 1), from
\* kk on; the result is the matrix, or raised = TRUE (a ValueError) when a
\* pass of the loop raises.
RECURSIVE SetDiagLoop(_, _, _, _, _)
SetDiagLoop(pm, n_units, nt, tt, kk) ==
    IF kk > tt THEN [raised |-> FALSE, matrix |-> pm]
    ELSE IF SetDiagRaises(n_units, nt, kk) THEN [raised |-> TRUE, matrix |-> {}]
    ELSE SetDiagLoop(SetDiagBands(pm, n_units, nt, kk), n_units, nt, tt, kk + 1)

\* The whole call: [raised, matrix], matrix the true entries of the matrix
\* returned.
compute_sparse_boolean_proximity_matrix_space_time(coords, nt, ts, tt, sparse) ==
    SetDiagLoop(TileBlocks(SpaceMatrix(coords, ts, sparse), Len(coords), nt),
                Len(coords), nt, tt, 1)

-----------------------------------------------------------------------------
(* The call of compute_sparse_boolean_proximity_matrix_space_time, step by  *)
(* step.                                                                    *)

\* Placeholder of a matrix not computed (yet); ppc tells whether one is.
NoMatrix == {}

ProxInit ==
    /\ ppc = "space"
    /\ coordinates \in CoordinateSets
    /\ n_timesteps \in 1..MaxTimesteps
    /\ threshold_space \in {-1, 0, 2, MaxThresholdSpace}
    /\ threshold_timesteps \in -1..MaxThresholdTimesteps
    /\ space_sparse \in BOOLEAN
    /\ proximity_matrix_space = NoMatrix
    /\ proximity_matrix = NoMatrix
    /\ k = 0

ProxInputs == <<coordinates, n_timesteps, threshold_space,
                threshold_timesteps, space_sparse>>

\* Lines 83-86.
ComputeSpace ==
    /\ ppc = "space"
    /\ proximity_matrix_space' =
           SpaceMatrix(coordinates, threshold_space, space_sparse)
    /\ ppc' = "tile"
    /\ UNCHANGED <<ProxInputs, proximity_matrix, k>>
    /\ UNCHANGED <<clusVars, runVars>>

\* Lines 90-95.
Tile ==
    /\ ppc = "tile"
    /\ proximity_matrix' =
           TileBlocks(proximity_matrix_space, Len(coordinates), n_timesteps)
    /\ k' = 1
    /\ ppc' = "setdiag"
    /\ UNCHANGED <<ProxInputs, proximity_matrix_space>>
    /\ UNCHANGED <<clusVars, runVars>>

\* Lines 97-99, one pass of the loop body.
SetDiag ==
    /\ ppc = "setdiag"
    /\ k <= threshold_timesteps
    /\ ~SetDiagRaises(Len(coordinates), n_timesteps, k)
    /\ proximity_matrix' =
           SetDiagBands(proximity_matrix, Len(coordinates), n_timesteps, k)
    /\ k' = k + 1
    /\ UNCHANGED <<ProxInputs, proximity_matrix_space, ppc>>
    /\ UNCHANGED <<clusVars, runVars>>

\* Lines 98-99 raising: the call ends with ValueError and returns nothing.
SetDiagError ==
    /\ ppc = "setdiag"
    /\ k <= threshold_timesteps
    /\ SetDiagRaises(Len(coordinates), n_timesteps, k)
    /\ ppc' = "raised"
    /\ proximity_matrix' = NoMatrix
    /\ UNCHANGED <<ProxInputs, proximity_matrix_space, k>>
    /\ UNCHANGED <<clusVars, runVars>>

\* Line 101.
ReturnMatrix ==
    /\ ppc = "setdiag"
    /\ k > threshold_timesteps
    /\ ppc' = "returned"
    /\ UNCHANGED <<ProxInputs, proximity_matrix_space, proximity_matrix, k>>
    /\ UNCHANGED <<clusVars, runVars>>

\* The variables of the other components, idle during this call.
ClusIdle ==
    /\ cpc = "idle"
    /\ t = <<>> /\ p = <<>> /\ p_value_threshold = 0
    /\ t_flat = <<>> /\ idx = <<>>
    /\ clusters = <<>> /\ cluster_statistic = <<>>
    /\ clusters_over_threshold = {} /\ todo = <<>>
    /\ unit_ts = 0 /\ unit_s = 0 /\ timestep = 0
    /\ thresholded_t_map = <<>>

\* The main program's own variables, idle outside the main program.
RunIdle ==
    /\ pc = "idle"
    /\ XX = <<>> /\ seed = 0 /\ parallel = FALSE
    /\ iterations = 0 /\ n_jobs = 0 /\ batch_size = 0 /\ loop_i = 0
    /\ batches = <<>> /\ worker_rng = <<>>
    /\ max_cluster_statistic = <<>>
    /\ cluster_statistic_threshold = 0

ProxNext == ComputeSpace \/ Tile \/ SetDiag \/ SetDiagError \/ ReturnMatrix

InitProximity == ProxInit /\ ClusIdle /\ RunIdle

SpecProximity == InitProximity /\ [][ProxNext]_vars

-----------------------------------------------------------------------------
(* mass_univariate.py: compute_ttest_clusters.  Arrays are functions on    *)
(* 0..n-1; Python lists are sequences.                                      *)

\* The transpose m.T of an array of shape (rows, cols).
Transpose(m, rows, cols) ==
    [c \in 0..(cols - 1) |-> [r \in 0..(rows - 1) |-> m[r][c]]]

\* m.flatten() of an array of shape (rows, cols): row after row.
Flatten(m, rows, cols) ==
    [i \in 0..(rows * cols - 1) |-> m[i \div cols][i % cols]]

\* g.flatten() without the transposition.
FlattenGridUntransposed(g, n_units, nt) == Flatten(g, n_units, nt)

\* Lines 23 and 28: g.T.flatten() of a grid of shape (n_units, n_timesteps).
FlattenGrid(g, n_units, nt) ==
    Flatten(Transpose(g, n_units, nt), nt, n_units)

\* The elements of a finite set of integers, ascending.
RECURSIVE Ascending(_)
Ascending(S) ==
    IF S = {} THEN <<>>
    ELSE LET m == CHOOSE x \in S : \A y \in S : x <= y
         IN <<m>> \o Ascending(S \ {m})

\* Line 28: np.where(p_flat <= p_value_threshold)[0].
Survives(pv, thr) == pv <= thr

SurvivingIndices(p_flat, thr) ==
    Ascending({i \in DOMAIN p_flat : Survives(p_flat[i], thr)})

\* Line 34: proximity_matrix_space_time[idx[:, None], idx], the matrix over
\* the positions 0..len(idx)-1 of idx.
SubMatrix(pm, ix) ==
    {<<a, b>> \in (0..(Len(ix) - 1)) \X (0..(Len(ix) - 1)) :
        <<ix[a + 1], ix[b + 1]>> \in pm}

\* Line 34: t_flat[idx].
Take(a, ix) == [j \in 0..(Len(ix) - 1) |-> a[ix[j + 1]]]

RECURSIVE SumOver(_, _)
SumOver(f, S) ==
    IF S = {} THEN 0
    ELSE LET x == CHOOSE y \in S : TRUE IN f[x] + SumOver(f, S \ {x})

\* The vertices reachable from S along the edges of adj, in either
\* direction.
RECURSIVE Reachable(_, _, _)
Reachable(S, adj, nodes) ==
    LET S2 == S \cup {j \in nodes :
                        \E i \in S : <<i, j>> \in adj \/ <<j, i>> \in adj}
    IN IF S2 = S THEN S ELSE Reachable(S2, adj, nodes)

\* The connected components of the graph on nodes, ordered by minimum
\* member.
RECURSIVE Components(_, _)
Components(nodes, adj) ==
    IF nodes = {} THEN <<>>
    ELSE LET m == CHOOSE x \in nodes : \A y \in nodes : x <= y
             c == Reachable({m}, adj, nodes)
         IN <<c>> \o Components(nodes \ c, adj)

\* cbpktst.compute_clusters_statistic(test_statistic, proximity_matrix):
\* the connected components of the graph of proximity_matrix and, per
\* component, the sum of the members' statistics.
compute_clusters_statistic(test_statistic, pm) ==
    LET cs == Components(DOMAIN test_statistic, pm)
    IN [clusters |-> cs,
        cluster_statistic |->
            [c \in 1..Len(cs) |-> SumOver(test_statistic, cs[c])]]

\* Clusters left in the positions of idx.
PositionsInIdx(cl, ix) == cl

\* Line 36: clusters = [[idx[ci] for ci in cl] for cl in clusters].
OriginalIndices(cl, ix) == {ix[ci + 1] : ci \in cl}

\* Lines 23-37 of compute_ttest_clusters, from the scores of line 18.
compute_ttest_clusters(tg, pg, thr, pm, n_units, nt) ==
    LET tf == FlattenGrid(tg, n_units, nt)
        ix == SurvivingIndices(FlattenGrid(pg, n_units, nt), thr)
        r  == compute_clusters_statistic(Take(tf, ix), SubMatrix(pm, ix))
    IN [clusters |-> [c \in 1..Len(r.clusters) |->
                         OriginalIndices(r.clusters[c], ix)],
        cluster_statistic |-> r.cluster_statistic]

\* Lines 120-121.
UnitOf(i, n_units) == i % n_units

TimestepOf(i, n_units) == i \div n_units

-----------------------------------------------------------------------------
(* One call of compute_ttest_clusters on a grid, then the loop of lines     *)
(* 118-122 over the clusters selected.                                      *)

\* p-values a node may get, in percent, around the threshold of line 49.
PValues == {5, 50}

Grid(n_units, nt, S) == [0..(n_units - 1) -> [0..(nt - 1) -> S]]

\* A statistic per node (u, tt): distinct per node, of alternating sign.
TokenGrid(n_units, nt) ==
    [u \in 0..(n_units - 1) |->
        [tt \in 0..(nt - 1) |->
            (IF (u + tt) % 2 = 0 THEN 1 ELSE -1) * (1 + u + tt * n_units)]]

ClusInit ==
    /\ coordinates \in UNION {[1..n -> Points] : n \in 1..GridUnits}
    /\ n_timesteps \in 1..GridTimesteps
    /\ threshold_space = 3
    /\ threshold_timesteps \in 0..(n_timesteps - 1)
    /\ space_sparse = FALSE
    /\ proximity_matrix_space = NoMatrix
    /\ proximity_matrix = compute_sparse_boolean_proximity_matrix_space_time(
           coordinates, n_timesteps, threshold_space, threshold_timesteps,
           space_sparse).matrix
    /\ k = 0
    /\ ppc = "returned"
    /\ cpc = "score"
    /\ t = <<>> /\ p = <<>>
    /\ p_value_threshold = 5
    /\ t_flat = <<>> /\ idx = <<>>
    /\ clusters = <<>> /\ cluster_statistic = <<>>
    /\ clusters_over_threshold = {} /\ todo = <<>>
    /\ unit_ts = 0 /\ unit_s = 0 /\ timestep = 0
    /\ thresholded_t_map = <<>>

\* Line 18: the scores of the external scorer: any grid of p-values, and
\* statistics that tell the nodes apart.
Score ==
    /\ cpc = "score"
    /\ t' = TokenGrid(Len(coordinates), n_timesteps)
    /\ p' \in Grid(Len(coordinates), n_timesteps, PValues)
    /\ cpc' = "threshold"
    /\ UNCHANGED <<p_value_threshold, t_flat, idx, clusters,
                   cluster_statistic, clusters_over_threshold, todo,
                   unit_ts, unit_s, timestep, thresholded_t_map>>
    /\ UNCHANGED <<proxVars, runVars>>

\* Lines 23-28.
Threshold ==
    /\ cpc = "threshold"
    /\ t_flat' = FlattenGrid(t, Len(coordinates), n_timesteps)
    /\ idx' = SurvivingIndices(
                  FlattenGrid(p, Len(coordinates), n_timesteps),
                  p_value_threshold)
    /\ cpc' = "cluster"
    /\ UNCHANGED <<t, p, p_value_threshold, clusters, cluster_statistic,
                   clusters_over_threshold, todo, unit_ts, unit_s, timestep,
                   thresholded_t_map>>
    /\ UNCHANGED <<proxVars, runVars>>

\* Lines 34-37.
Cluster ==
    /\ cpc = "cluster"
    /\ LET r == compute_ttest_clusters(t, p, p_value_threshold,
                    proximity_matrix, Len(coordinates), n_timesteps)
       IN /\ clusters' = r.clusters
          /\ cluster_statistic' = r.cluster_statistic
    /\ cpc' = "select"
    /\ UNCHANGED <<t, p, p_value_threshold, t_flat, idx,
                   clusters_over_threshold, todo, unit_ts, unit_s, timestep,
                   thresholded_t_map>>
    /\ UNCHANGED <<proxVars, runVars>>

\* The members of the clusters cot, cluster after cluster.
RECURSIVE Members(_, _)
Members(cs, cot) ==
    IF cot = <<>> THEN <<>>
    ELSE Ascending(cs[Head(cot)]) \o Members(cs, Tail(cot))

\* Lines 116-118: the clusters over the threshold (here every cluster, or
\* the first one only) and the map of zeros.
Select ==
    /\ cpc = "select"
    /\ \E sel \in {DOMAIN clusters, DOMAIN clusters \cap {1}} :
           /\ clusters_over_threshold' = sel
           /\ todo' = Members(clusters, Ascending(sel))
    /\ thresholded_t_map' = [u \in 0..(Len(coordinates) - 1) |-> 0]
    /\ cpc' = "report"
    /\ UNCHANGED <<t, p, p_value_threshold, t_flat, idx, clusters,
                   cluster_statistic, unit_ts, unit_s, timestep>>
    /\ UNCHANGED <<proxVars, runVars>>

\* Lines 119-122, one pass of the inner loop.
Report ==
    /\ cpc \in {"report", "reported"}
    /\ todo # <<>>
    /\ unit_ts' = Head(todo)
    /\ unit_s' = UnitOf(Head(todo), Len(coordinates))
    /\ timestep' = TimestepOf(Head(todo), Len(coordinates))
    /\ thresholded_t_map' =
           [thresholded_t_map EXCEPT ![unit_s'] = t[unit_s'][timestep']]
    /\ todo' = Tail(todo)
    /\ cpc' = "reported"
    /\ UNCHANGED <<t, p, p_value_threshold, t_flat, idx, clusters,
                   cluster_statistic, clusters_over_threshold>>
    /\ UNCHANGED <<proxVars, runVars>>

ClusNext == Score \/ Threshold \/ Cluster \/ Select \/ Report

InitClusters == ClusInit /\ RunIdle

SpecClusters == InitClusters /\ [][ClusNext]_vars

-----------------------------------------------------------------------------
(* mass_univariate.py: the main program                                     *)

\* Bounds of the runs.
MaxIterations == 4
MaxBatchSize == 2
MaxJobs == 2
MaxSeed == 1

\* Line 64: the label of each sample, -1 for the first group and 1 for the
\* second (two samples each).
yy == <<-1, -1, 1, 1>>

\* The values of the four samples at each node, NodeValues[u][tt][sample].
\* In DataA every labelling leaves a node under the threshold of 5 percent;
\* in DataB one labelling leaves none.
DataA ==
    [s \in 1..4 |->
        [u \in 0..1 |->
            [tt \in 0..1 |->
                (<< << <<3, 3, 0, 0>>, <<3, 1, 2, 0>> >>,
                    << <<1, 0, 0, 1>>, <<0, 0, 0, 0>> >> >>)[u + 1][tt + 1][s]]]]

DataB ==
    [s \in 1..4 |->
        [u \in 0..1 |->
            [tt \in 0..1 |->
                (<< << <<3, 3, 0, 0>>, <<3, 1, 2, 0>> >>,
                    << <<0, 0, 0, 0>>, <<0, 0, 0, 0>> >> >>)[u + 1][tt + 1][s]]]]

\* Line 60: the coordinates of the two units of these data.
DataCoordinates == << <<0, 0>>, <<10, 10>> >>

\* XX.shape[1] and XX.shape[2].
ShapeUnits(X) == Cardinality(DOMAIN X[1])

ShapeTimesteps(X) == Cardinality(DOMAIN X[1][0])

RECURSIVE GroupSum(_, _, _, _, _, _)
GroupSum(X, y, g, u, tt, s) ==
    IF s > Len(y) THEN 0
    ELSE (IF y[s] = g THEN X[s][u][tt] ELSE 0)
             + GroupSum(X, y, g, u, tt, s + 1)

\* Line 18: t, p = ttest_ind(XX[y==-1], XX[y==1], axis=0), the external
\* scorer.  Its stand-in: the statistic is the difference of the group
\* sums, and the two-sided p-value (in percent) falls as |t| grows.
PValueOf(tv) == IF Abs(tv) >= 4 THEN 1 ELSE IF Abs(tv) >= 2 THEN 5 ELSE 50

ttest_ind(X, y) ==
    LET tg == [u \in 0..(ShapeUnits(X) - 1) |->
                  [tt \in 0..(ShapeTimesteps(X) - 1) |->
                      GroupSum(X, y, -1, u, tt, 1)
                          - GroupSum(X, y, 1, u, tt, 1)]]
    IN [t |-> tg,
        p |-> [u \in DOMAIN tg |-> [tt \in DOMAIN tg[u] |-> PValueOf(tg[u][tt])]]]

\* The rearrangements of yy.
Labellings ==
    << <<-1, -1, 1, 1>>, <<-1, 1, -1, 1>>, <<-1, 1, 1, -1>>,
       <<1, 1, -1, -1>>, <<1, -1, 1, -1>>, <<1, -1, -1, 1>> >>

\* Line 43: np.random.seed(seed).  The state of a generator is the seed it
\* was given and the number of draws made since.
Seeded(sd) == [seed |-> sd, pos |-> 0]

\* Lines 83 and 95: np.random.permutation(yy) draws from the process's own
\* generator: the labelling is decided by that generator's state, and the
\* state moves on.
permutation(rng) == Labellings[((rng.seed + rng.pos) % Len(Labellings)) + 1]

Advance(rng) == [rng EXCEPT !.pos = @ + 1]

\* np.abs(cluster_statistic).max(); of an empty array max() raises
\* ValueError.
MaxRaises(cs) == Len(cs) = 0

MaxAbs(cs) ==
    CHOOSE m \in {Abs(cs[c]) : c \in DOMAIN cs} :
        \A c \in DOMAIN cs : Abs(cs[c]) <= m

\* Line 96 (and 84): the cluster statistics under the labelling y.
PermutedStatistic(X, y, thr, pm) ==
    LET sc == ttest_ind(X, y)
    IN compute_ttest_clusters(sc.t, sc.p, thr, pm, ShapeUnits(X),
                              ShapeTimesteps(X)).cluster_statistic

\* Lines 92-98: ttest_cluster_statistic_permuted_batch, n passes of the loop
\* left.  A pass that raises ends the batch: nothing is returned.
RECURSIVE PermutedBatch(_, _, _, _, _, _, _)
PermutedBatch(X, thr, pm, n, rng, ys, values) ==
    IF n = 0
    THEN [status |-> "done", ys |-> ys, values |-> values, rng |-> rng]
    ELSE LET y  == permutation(rng)
             cs == PermutedStatistic(X, y, thr, pm)
         IN IF MaxRaises(cs)
            THEN [status |-> "failed", ys |-> Append(ys, y),
                  values |-> <<>>, rng |-> Advance(rng)]
            ELSE PermutedBatch(X, thr, pm, n - 1, Advance(rng),
                               Append(ys, y), Append(values, MaxAbs(cs)))

\* Line 100: the number of batches, iterations / batch_size on integers.
NumberOfBatches(its, bs) == Max(0, FloorDiv(its, bs))

\* A Parallel call that returned once every batch had ended, raised or
\* not, would hand on the results of those that returned.
ParallelReturnsOnceEnded(bt) == \A b \in DOMAIN bt : bt[b].status # "pending"

\* Line 100: Parallel(...)(...) returns the list of results once every
\* batch has returned; a batch that raised makes the call raise instead.
ParallelReturns(bt) == \A b \in DOMAIN bt : bt[b].status = "done"

ParallelRaises(bt) == \E b \in DOMAIN bt : bt[b].status = "failed"

\* Line 101: np.concatenate of the results, in the order of the batches.
RECURSIVE Concatenate(_, _)
Concatenate(bt, b) ==
    IF b > Len(bt) THEN <<>> ELSE bt[b].values \o Concatenate(bt, b + 1)

\* np.sort: ascending.  The value at rank r is the one with fewer than r
\* values below it and at least r values not above it.
Sort(a) ==
    [r \in 1..Len(a) |->
        CHOOSE v \in Range(a) :
            /\ Cardinality({j \in DOMAIN a : a[j] < v}) < r
            /\ r <= Cardinality({j \in DOMAIN a : a[j] <= v})]

\* Line 103: the index iterations * (1.0 - p_value_threshold), a float that
\* the indexing truncates towards zero (p_value_threshold in percent).
ThresholdIndex(its, thr) ==
    LET num == its * (100 - thr)
    IN IF num >= 0 THEN num \div 100 ELSE -((-num) \div 100)

\* a[ix] of Python: ix counts from 0, a negative ix from the end, and an ix
\* outside -len..len-1 raises IndexError.
IndexRaises(a, ix) == ix >= Len(a) \/ ix < -Len(a)

PyIndex(a, ix) == IF ix >= 0 THEN a[ix + 1] ELSE a[Len(a) + ix + 1]

\* Line 105: np.where(np.abs(cluster_statistic) > threshold)[0]; clusters
\* are numbered from 1 here.
OverThreshold(cs, thr) == {c \in DOMAIN cs : Abs(cs[c]) > thr}

-----------------------------------------------------------------------------
(* The main program, from line 67 on.                                       *)

\* What the program never assigns after its set-up.
configuration == <<XX, seed, parallel, iterations, n_jobs, batch_size,
                   coordinates, n_timesteps, threshold_space,
                   threshold_timesteps, space_sparse, p_value_threshold>>

\* Locals of the functions called, not followed in the main program.
locals == <<cpc, t, p, t_flat, idx, todo, unit_ts, unit_s, timestep,
            thresholded_t_map, proximity_matrix_space, k>>

LocalsIdle ==
    /\ cpc = "idle"
    /\ t = <<>> /\ p = <<>> /\ t_flat = <<>> /\ idx = <<>> /\ todo = <<>>
    /\ unit_ts = 0 /\ unit_s = 0 /\ timestep = 0
    /\ thresholded_t_map = <<>>
    /\ proximity_matrix_space = NoMatrix
    /\ k = 0

\* The state after lines 42-65.
Init ==
    /\ pc = "proximity"
    /\ XX \in {DataA, DataB}
    /\ coordinates = DataCoordinates
    /\ n_timesteps = ShapeTimesteps(XX)
    /\ seed \in 0..MaxSeed
    /\ parallel \in BOOLEAN
    /\ iterations \in -1..MaxIterations
    /\ n_jobs \in 1..MaxJobs
    /\ batch_size \in 1..MaxBatchSize
    /\ p_value_threshold \in {-5, 5, 150}
    /\ threshold_space \in {-1, 3}
    /\ threshold_timesteps \in {-1, 1, 2}
    /\ space_sparse = FALSE
    /\ ppc = "idle"
    /\ proximity_matrix = NoMatrix
    /\ clusters = <<>> /\ cluster_statistic = <<>>
    /\ clusters_over_threshold = {}
    /\ loop_i = 0
    /\ batches = <<>> /\ worker_rng = <<>>
    /\ max_cluster_statistic = <<>>
    /\ cluster_statistic_threshold = 0
    /\ LocalsIdle

\* Line 68.  A ValueError of the call ends the program.
BuildProximity ==
    /\ pc = "proximity"
    /\ LET r == compute_sparse_boolean_proximity_matrix_space_time(
                    coordinates, n_timesteps, threshold_space,
                    threshold_timesteps, space_sparse)
       IN IF r.raised
          THEN /\ pc' = "error"
               /\ ppc' = "raised"
               /\ UNCHANGED proximity_matrix
          ELSE /\ pc' = "observed"
               /\ ppc' = "returned"
               /\ proximity_matrix' = r.matrix
    /\ UNCHANGED <<configuration, locals, clusters, cluster_statistic,
                   clusters_over_threshold, loop_i, batches, worker_rng,
                   max_cluster_statistic, cluster_statistic_threshold>>

\* Lines 71-74.  cluster_statistic.max() of line 73 raises when there is no
\* cluster.
ObservedClusters ==
    /\ pc = "observed"
    /\ LET sc == ttest_ind(XX, yy)
           r  == compute_ttest_clusters(sc.t, sc.p, p_value_threshold,
                     proximity_matrix, ShapeUnits(XX), ShapeTimesteps(XX))
       IN /\ clusters' = r.clusters
          /\ cluster_statistic' = r.cluster_statistic
          /\ pc' = IF MaxRaises(r.cluster_statistic)
                   THEN "error" ELSE "permute"
    /\ UNCHANGED <<configuration, locals, ppc, proximity_matrix,
                   clusters_over_threshold, loop_i, batches, worker_rng,
                   max_cluster_statistic, cluster_statistic_threshold>>

\* Lines 78-79.  np.zeros of a negative length raises.
SequentialStart ==
    /\ pc = "permute"
    /\ ~parallel
    /\ IF iterations < 0
       THEN pc' = "error" /\ UNCHANGED max_cluster_statistic
       ELSE /\ pc' = "sequential"
            /\ max_cluster_statistic' = [j \in 1..iterations |-> 0]
    /\ loop_i' = 0
    /\ UNCHANGED <<configuration, locals, ppc, proximity_matrix, clusters,
                   cluster_statistic, clusters_over_threshold, batches,
                   worker_rng, cluster_statistic_threshold>>

\* Lines 80-82, a pass of the sequential loop: stdout is not a name of
\* this module (it is imported in proximity.py only), so line 82 raises
\* NameError before the permutation of line 83.
SequentialPass ==
    /\ pc = "sequential"
    /\ loop_i < iterations
    /\ pc' = "error"
    /\ UNCHANGED <<configuration, locals, ppc, proximity_matrix, clusters,
                   cluster_statistic, clusters_over_threshold, loop_i,
                   batches, worker_rng, max_cluster_statistic,
                   cluster_statistic_threshold>>

\* Line 80, the loop over: here only when iterations = 0.
SequentialEnd ==
    /\ pc = "sequential"
    /\ loop_i >= iterations
    /\ pc' = "threshold"
    /\ UNCHANGED <<configuration, locals, ppc, proximity_matrix, clusters,
                   cluster_statistic, clusters_over_threshold, loop_i,
                   batches, worker_rng, max_cluster_statistic,
                   cluster_statistic_threshold>>

PendingBatch == [status |-> "pending", ys |-> <<>>, values |-> <<>>]

\* Lines 90-100: iterations / batch_size batches handed to n_jobs worker
\* processes.  A worker starts with the generator of the program as it is
\* here (a forked copy of it, or the program's own when there is one job).
Dispatch ==
    /\ pc = "permute"
    /\ parallel
    /\ batches' = [b \in 1..NumberOfBatches(iterations, batch_size) |->
                      PendingBatch]
    /\ worker_rng' = [w \in 1..n_jobs |-> Seeded(seed)]
    /\ pc' = "parallel"
    /\ UNCHANGED <<configuration, locals, ppc, proximity_matrix, clusters,
                   cluster_statistic, clusters_over_threshold, loop_i,
                   max_cluster_statistic, cluster_statistic_threshold>>

\* Lines 92-98 in worker w: the next batch not yet started.
RunBatch(w) ==
    /\ pc = "parallel"
    /\ \E b \in DOMAIN batches :
           /\ batches[b].status = "pending"
           /\ \A c \in 1..(b - 1) : batches[c].status # "pending"
           /\ LET r == PermutedBatch(XX, p_value_threshold, proximity_matrix,
                                     batch_size, worker_rng[w], <<>>, <<>>)
              IN /\ batches' = [batches EXCEPT ![b] =
                                   [status |-> r.status, ys |-> r.ys,
                                    values |-> r.values]]
                 /\ worker_rng' = [worker_rng EXCEPT ![w] = r.rng]
    /\ UNCHANGED <<configuration, locals, ppc, proximity_matrix, clusters,
                   cluster_statistic, clusters_over_threshold, loop_i, pc,
                   max_cluster_statistic, cluster_statistic_threshold>>

\* Line 100: the error of a batch raised again in the program, which ends.
ParallelError ==
    /\ pc = "parallel"
    /\ ParallelRaises(batches)
    /\ pc' = "error"
    /\ UNCHANGED <<configuration, locals, ppc, proximity_matrix, clusters,
                   cluster_statistic, clusters_over_threshold, loop_i,
                   batches, worker_rng, max_cluster_statistic,
                   cluster_statistic_threshold>>

\* Lines 100-101.  np.concatenate of an empty list raises ValueError.
Collect ==
    /\ pc = "parallel"
    /\ ParallelReturns(batches)
    /\ IF Len(batches) = 0
       THEN pc' = "error" /\ UNCHANGED max_cluster_statistic
       ELSE /\ pc' = "threshold"
            /\ max_cluster_statistic' = Concatenate(batches, 1)
    /\ UNCHANGED <<configuration, locals, ppc, proximity_matrix, clusters,
                   cluster_statistic, clusters_over_threshold, loop_i,
                   batches, worker_rng, cluster_statistic_threshold>>

\* Line 103.
ComputeThreshold ==
    /\ pc = "threshold"
    /\ LET ix == ThresholdIndex(iterations, p_value_threshold)
           sorted == Sort(max_cluster_statistic)
       IN IF IndexRaises(sorted, ix)
          THEN pc' = "error" /\ UNCHANGED cluster_statistic_threshold
          ELSE /\ pc' = "flag"
               /\ cluster_statistic_threshold' = PyIndex(sorted, ix)
    /\ UNCHANGED <<configuration, locals, ppc, proximity_matrix, clusters,
                   cluster_statistic, clusters_over_threshold, loop_i,
                   batches, worker_rng, max_cluster_statistic>>

\* Line 105.
FlagClusters ==
    /\ pc = "flag"
    /\ clusters_over_threshold' =
           OverThreshold(cluster_statistic, cluster_statistic_threshold)
    /\ pc' = "done"
    /\ UNCHANGED <<configuration, locals, ppc, proximity_matrix, clusters,
                   cluster_statistic, loop_i, batches, worker_rng,
                   max_cluster_statistic, cluster_statistic_threshold>>

Next ==
    \/ BuildProximity
    \/ ObservedClusters
    \/ SequentialStart
    \/ SequentialPass
    \/ SequentialEnd
    \/ Dispatch
    \/ \E w \in DOMAIN worker_rng : RunBatch(w)
    \/ ParallelError
    \/ Collect
    \/ ComputeThreshold
    \/ FlagClusters

Spec == Init /\ [][Next]_vars

-----------------------------------------------------------------------------
(* Lines 103-105 on a null distribution given.                              *)

MaxNullLength == 3

NullArrays ==
    UNION {[1..n -> 1..3] : n \in 1..MaxNullLength}
        \cup {[j \in 1..100 |-> 101 - j]}

InitSignificance ==
    /\ pc = "threshold"
    /\ max_cluster_statistic \in NullArrays
    /\ iterations = Len(max_cluster_statistic)
    /\ p_value_threshold \in {5, 25, 50}
    /\ cluster_statistic \in {<<96, -94>>, <<-96, 95>>, <<3, -2, 1>>}
    /\ clusters = [c \in DOMAIN cluster_statistic |-> {c - 1}]
    /\ XX = <<>> /\ seed = 0 /\ parallel = FALSE
    /\ n_jobs = 0 /\ batch_size = 0 /\ loop_i = 0
    /\ batches = <<>> /\ worker_rng = <<>>
    /\ cluster_statistic_threshold = 0
    /\ clusters_over_threshold = {}
    /\ coordinates = <<>> /\ n_timesteps = 0
    /\ threshold_space = 0 /\ threshold_timesteps = 0
    /\ space_sparse = FALSE
    /\ ppc = "idle"
    /\ proximity_matrix = NoMatrix
    /\ LocalsIdle

NextSignificance == ComputeThreshold \/ FlagClusters

SpecSignificance == InitSignificance /\ [][NextSignificance]_vars

-----------------------------------------------------------------------------
(* Properties of the proximity matrix (SpecProximity)                       *)

NUnits == Len(coordinates)

Units == 0..(NUnits - 1)

Timesteps == 0..(n_timesteps - 1)

Node(u, tt) == u + tt * NUnits

\* Euclidean distance between units u1 and u2 at most threshold_space, for
\* threshold_space >= 0.
SpatiallyClose(u1, u2) ==
    SqDist(coordinates[u1 + 1], coordinates[u2 + 1])
        <= threshold_space * threshold_space

EntriesAsSpecified ==
    \A u1 \in Units, u2 \in Units, t1 \in Timesteps, t2 \in Timesteps :
        (<<Node(u1, t1), Node(u2, t2)>> \in proximity_matrix)
            <=> \/ t1 = t2 /\ SpatiallyClose(u1, u2)
                \/ u1 = u2 /\ Abs(t1 - t2) <= threshold_timesteps

\* C1: for every coordinate set, n_timesteps >= 1, threshold_space >= 0 and
\* threshold_timesteps >= 0, the call returns a matrix whose entry
\* [u1 + t1*n_units, u2 + t2*n_units] is true iff (t1 = t2 and the units are
\* within threshold_space) or (u1 = u2 and |t1 - t2| <= threshold_timesteps),
\* also when threshold_timesteps >= n_timesteps.
C1_EntriesForEveryThreshold ==
    (/\ ppc \in {"returned", "raised"}
     /\ threshold_space >= 0
     /\ threshold_timesteps >= 0)
        => (ppc = "returned" /\ EntriesAsSpecified)

\* What the code does provide: the entries are as specified whenever the
\* call returns, which it does exactly when
\* threshold_timesteps < n_timesteps.
EntriesWhenReturned ==
    /\ (ppc = "returned" /\ threshold_space >= 0 /\ threshold_timesteps >= 0)
           => EntriesAsSpecified
    /\ ppc = "returned" => threshold_timesteps < n_timesteps
    /\ ppc = "raised" => threshold_timesteps >= n_timesteps

Symmetric(pm) == \A e \in pm : <<e[2], e[1]>> \in pm

\* C7: the matrix returned is symmetric and every diagonal entry is true,
\* for the dense and for the sparse spatial strategy.
C7_SymmetricWithDiagonal ==
    ppc = "returned"
        => /\ Symmetric(proximity_matrix)
           /\ \A n \in 0..(NUnits * n_timesteps - 1) :
                  <<n, n>> \in proximity_matrix

\* What the code does provide: symmetry always, the diagonal when
\* threshold_space >= 0, and the same matrix by both strategies.
SymmetricWhenReturned ==
    /\ ppc = "returned" => Symmetric(proximity_matrix)
    /\ (ppc = "returned" /\ threshold_space >= 0)
           => \A n \in 0..(NUnits * n_timesteps - 1) :
                  <<n, n>> \in proximity_matrix
    /\ SpaceMatrix(coordinates, threshold_space, TRUE)
           = SpaceMatrix(coordinates, threshold_space, FALSE)

-----------------------------------------------------------------------------
(* Properties of compute_ttest_clusters (SpecClusters)                      *)

ClustersComputed == cpc \in {"select", "report", "reported"}

\* The surviving set, from the grid of p-values.
SurvivingSet ==
    {Node(u, tt) : <<u, tt>> \in
        {n \in Units \X Timesteps : p[n[1]][n[2]] <= p_value_threshold}}

\* C is connected in the proximity graph restricted to C: no part of C is
\* cut off from the rest of it.
ConnectedIn(C, pm) ==
    \A S \in SUBSET C :
        (S # {} /\ S # C)
            => \E a \in S, b \in C \ S : <<a, b>> \in pm \/ <<b, a>> \in pm

\* C6: the clusters returned, in original grid-node indices, are the maximal
\* connected components of the proximity graph restricted to the surviving
\* set: pairwise disjoint, their union the surviving set.
C6_ClustersAreComponents ==
    ClustersComputed =>
        /\ UNION Range(clusters) = SurvivingSet
        /\ \A a \in DOMAIN clusters, b \in DOMAIN clusters :
               a # b =>
                   /\ clusters[a] \cap clusters[b] = {}
                   /\ \A x \in clusters[a], y \in clusters[b] :
                          <<x, y>> \notin proximity_matrix
                          /\ <<y, x>> \notin proximity_matrix
        /\ \A a \in DOMAIN clusters :
               clusters[a] # {} /\ ConnectedIn(clusters[a], proximity_matrix)

\* C6's case: several clusters, one of several nodes, and a node that did
\* not survive before one that did (so idx is not 0, 1, 2, ...).
C6_Witness ==
    /\ ClustersComputed
    /\ Len(clusters) >= 2
    /\ \E a \in DOMAIN clusters : Cardinality(clusters[a]) >= 2
    /\ 0 \notin SurvivingSet
    /\ SurvivingSet # {}

\* C10: one linearization everywhere: the statistic and p-value of node
\* (u, t) are flattened to index u + t*n_units, which is that node's row and
\* column in the proximity matrix, and unit = index % n_units,
\* timestep = index // n_units give (u, t) back, as the loop of lines
\* 118-122 uses them.
C10_OneLinearization ==
    /\ cpc \in {"cluster", "select", "report", "reported"} =>
           \A u \in Units, tt \in Timesteps :
               /\ t_flat[Node(u, tt)] = t[u][tt]
               /\ (Node(u, tt) \in Range(idx))
                      <=> p[u][tt] <= p_value_threshold
               /\ UnitOf(Node(u, tt), NUnits) = u
               /\ TimestepOf(Node(u, tt), NUnits) = tt
    /\ cpc # "idle" => EntriesAsSpecified
    /\ cpc = "reported" =>
           /\ unit_s \in Units /\ timestep \in Timesteps
           /\ Node(unit_s, timestep) = unit_ts
           /\ thresholded_t_map[unit_s] = t_flat[unit_ts]

\* C10's case: a node of a later timestep and of a unit other than the
\* first has been visited.
C10_Witness ==
    /\ cpc = "reported"
    /\ timestep >= 1
    /\ unit_s >= 1

-----------------------------------------------------------------------------
(* Properties of the permutation run (Spec) and of the critical value       *)
(* (SpecSignificance)                                                       *)

NullReturned == pc \in {"threshold", "flag", "done"}

\* The configurations section 7 of the specification has rejected.
InvalidConfiguration ==
    \/ threshold_space < 0
    \/ threshold_timesteps < 0
    \/ p_value_threshold <= 0
    \/ p_value_threshold >= 100
    \/ iterations <= 0

\* C2: the null distribution has length exactly iterations, for every
\* positive iterations and batch_size, dividing or not, sequential or
\* parallel.
C2_NullLengthIsIterations ==
    (NullReturned /\ ~InvalidConfiguration /\ batch_size > 0)
        => Len(max_cluster_statistic) = iterations

\* The 1-based rank ceil((1 - alpha) * iterations), alpha in percent.
CeilRank(its, thr) == (its * (100 - thr) + 99) \div 100

\* C3: the critical value is the value at 1-based rank
\* ceil((1 - alpha) * iterations) of the null array sorted ascending, and a
\* cluster is flagged iff |statistic| is greater than it; for the null
\* array 1..100 and alpha = 0.05 it is 95, so 96 is flagged and 94 is not.
C3_CriticalValueAtCeilRank ==
    LET critical ==
            Sort(max_cluster_statistic)[CeilRank(iterations, p_value_threshold)]
    IN (/\ iterations > 0
        /\ Len(max_cluster_statistic) = iterations
        /\ p_value_threshold \in 1..99)
           => /\ pc \in {"flag", "done"}
                  => cluster_statistic_threshold = critical
              /\ pc = "done"
                  => clusters_over_threshold =
                         {c \in DOMAIN cluster_statistic :
                             Abs(cluster_statistic[c]) > critical}
              /\ (pc \in {"flag", "done"} /\ iterations = 100
                      /\ p_value_threshold = 5
                      /\ Range(max_cluster_statistic) = 1..100)
                  => cluster_statistic_threshold = 95

\* The null value the claims give the labelling y: the maximum of the
\* absolute cluster statistics, 0 without clusters.
SpecifiedNullValue(y) ==
    LET cs == PermutedStatistic(XX, y, p_value_threshold, proximity_matrix)
    IN IF Len(cs) = 0 THEN 0 ELSE MaxAbs(cs)

\* C4: every iteration records the maximum absolute cluster statistic of
\* its clusters, 0 when there is none, and an iteration without clusters
\* raises nothing.
C4_EmptyIterationRecordsZero ==
    \A b \in DOMAIN batches :
        (batches[b].status # "pending" /\ ~InvalidConfiguration)
            => /\ batches[b].status = "done"
               /\ Len(batches[b].values) = Len(batches[b].ys)
               /\ \A j \in DOMAIN batches[b].values :
                      batches[b].values[j]
                          = SpecifiedNullValue(batches[b].ys[j])

\* How often each value occurs in a sequence.
Multiset(a) ==
    [v \in Range(a) |-> Cardinality({j \in DOMAIN a : a[j] = v})]

\* The null values of the iterations 0..n-1 when the labelling of iteration
\* j is drawn from the master seed at position j, which is what one worker
\* running every batch in turn draws.
ReferenceNull(n) ==
    [j \in 1..n |->
        SpecifiedNullValue(permutation([seed |-> seed, pos |-> j - 1]))]

\* C5: the multiset of null values is the same for every batch size, worker
\* count and order of the batches: the labelling of an iteration depends on
\* the master seed and the iteration's index only.
C5_NullIndependentOfDecomposition ==
    (NullReturned /\ parallel /\ ~InvalidConfiguration)
        => Multiset(max_cluster_statistic)
               = Multiset(ReferenceNull(Len(max_cluster_statistic)))

\* What the code does provide: with one worker the null values are those
\* of the master seed's stream, in order.
ReferenceNullWithOneWorker ==
    (NullReturned /\ parallel /\ n_jobs = 1)
        => max_cluster_statistic
               = ReferenceNull(Len(max_cluster_statistic))

\* C8: when a batch raises, the run ends without a critical value, and the
\* critical value is computed only from the results of every batch, each
\* of them complete.
C8_NoThresholdAfterWorkerError ==
    /\ (\E b \in DOMAIN batches : batches[b].status = "failed")
           => pc \in {"parallel", "error"}
    /\ (parallel /\ NullReturned)
           => /\ \A b \in DOMAIN batches :
                     /\ batches[b].status = "done"
                     /\ Len(batches[b].values) = batch_size
              /\ Len(max_cluster_statistic) = Len(batches) * batch_size
    /\ pc \in {"proximity", "observed", "permute", "sequential", "parallel",
               "error"}
           => cluster_statistic_threshold = 0 /\ clusters_over_threshold = {}

\* C8's case: one batch returned, another raised, and the run has ended.
C8_Witness ==
    /\ pc = "error"
    /\ \E b \in DOMAIN batches : batches[b].status = "failed"
    /\ \E b \in DOMAIN batches : batches[b].status = "done"

\* C9: a configuration with a negative threshold_space or
\* threshold_timesteps, alpha outside (0,1) or iterations <= 0 is rejected
\* before anything is computed: no proximity matrix, no scores, no
\* permutation.
C9_InvalidConfigurationRejected ==
    InvalidConfiguration
        => /\ pc \in {"proximity", "error"}
           /\ ppc = "idle"
           /\ clusters = <<>>
           /\ batches = <<>>

=============================================================================
